---- MODULE Spec2Model ----
(***************************************************************************)
(* Model of the xref mirror updater: update.py (load_repositories,         *)
(* do_updates, GitRepositoryUpdater) and the parts of git.py it drives     *)
(* (GitRepository.clean, GitRepository.remote_checkout); and of git.py's    *)
(* GitRepository and GitCommit objects used as a library: the revision     *)
(* cache, the parse of a commit description, the ancestry comparisons.     *)
(*                                                                         *)
(* Every external process (git, OpenGrok) either returns or raises; which  *)
(* one happens is a nondeterministic choice at the step that issues it.    *)
(***************************************************************************)
EXTENDS Naturals, Sequences, FiniteSets, TLC

VARIABLES
    pc,           \* position of do_updates
    run,          \* number of the current orchestrator run
    sourcemap,    \* lines of the sourcemap file of the config repository
    repo_map,     \* load_repositories' result: name -> configured source
    pending,      \* keys of repo_map the for loop has not yet yielded
    cur,          \* repo_name of the iteration in progress
    exists,       \* os.path.isdir of each mirror path
    mirror,       \* on-disk git state of each mirror
    cmds,         \* git invocations issued by the latest update_repo call
    calls,        \* updater and indexer calls of this run, with their outcomes
    failed_clone, \* what the latest attempt on each repository, if it was an
                  \* init_repo that raised, left at the path
    found,        \* the mirror of cur as its attempt found it
    rev_cache,    \* GitRepository.rev_cache: specifier -> GitCommit object
    refs,         \* the commit each ref of the repository points at on disk
    store,        \* what git cat-file commit prints for each object
    made,         \* number of GitCommit objects constructed so far
    gitlog,       \* git invocations issued by the latest library call
    ret,          \* the latest library call with what it returned or raised
    resolved      \* the get_rev calls that built a commit: <<specifier, id>>

updater_vars ==
    <<pc, run, sourcemap, repo_map, pending, cur, exists, mirror, cmds, calls,
      failed_clone, found>>

git_vars == <<rev_cache, refs, store, made, gitlog, ret, resolved>>

vars == <<updater_vars, git_vars>>

----------------------------------------------------------------------------
(* Bounds and input vocabulary *)

MaxLines == 3
MaxRunLines == 2
MaxRuns == 2

Names == {"a", "b", "c"}
Urls == {"u1", "u2"}
None == "none"

\* A small commit graph: c1 is the root, c2 and c3 are its children, c4
\* merges them.
Commits == {"c1", "c2", "c3", "c4"}

Parents(c) ==
    CASE c = "c1" -> {}
      [] c = "c2" -> {"c1"}
      [] c = "c3" -> {"c1"}
      [] c = "c4" -> {"c2", "c3"}

RECURSIVE AncestorsOf(_)
AncestorsOf(c) == {c} \cup UNION {AncestorsOf(p) : p \in Parents(c)}

\* What the upstream at each locator has as its master tip.
UpstreamTip(u) == IF u = "u1" THEN "c2" ELSE "c3"

\* Lines of the sourcemap after comment removal and stripping, as fields
\* separated by single spaces.  <<>> is a blank or comment-only line.
ConfigLines ==
    {<<>>, <<"a", "git", "u1">>, <<"b", "git", "u1">>, <<"c", "git", "u1">>,
     <<"a", "git", "u2">>, <<"a", "svn", "u1">>, <<"a", "git">>}

RECURSIVE SeqsUpTo(_, _)
SeqsUpTo(S, n) ==
    IF n = 0 THEN {<<>>}
    ELSE LET shorter == SeqsUpTo(S, n - 1)
         IN  shorter \cup {Append(s, x) : s \in shorter, x \in S}

Configs == SeqsUpTo(ConfigLines, MaxLines)

----------------------------------------------------------------------------
(* update.py: configuration *)

vcs_updaters == {"git"}

\* line.split(' ', 2) unpacked into three names
LineMalformed(line) == Len(line) > 0 /\ Len(line) < 3

\* As LineUnknownVcs, with a fallback updater for a kind the table lacks.
LineUnknownVcsFallback(line) == FALSE

LineUnknownVcs(line) == Len(line) = 3 /\ line[2] \notin vcs_updaters

EmptyMap == [k \in {} |-> None]

\* As LoadLines, keeping the first entry of a name and dropping later ones.
RECURSIVE LoadLinesKeepFirst(_, _)
LoadLinesKeepFirst(lines, n) ==
    IF n = 0 THEN [raised |-> FALSE, map |-> EmptyMap]
    ELSE LET before == LoadLinesKeepFirst(lines, n - 1)
             line == lines[n]
         IN  IF before.raised THEN before
             ELSE IF Len(line) = 0 THEN before
             ELSE IF LineMalformed(line) \/ LineUnknownVcs(line)
                  THEN [raised |-> TRUE, map |-> EmptyMap]
             ELSE [raised |-> FALSE,
                   map |-> [k \in (DOMAIN before.map) \cup {line[1]} |->
                              IF k \in DOMAIN before.map THEN before.map[k]
                              ELSE line[3]]]

\* The loop of load_repositories over the first n lines: raised when a line
\* raised, otherwise the map built so far (a later line with the same name
\* replaces the earlier entry).
RECURSIVE LoadLines(_, _)
LoadLines(lines, n) ==
    IF n = 0 THEN [raised |-> FALSE, map |-> EmptyMap]
    ELSE LET before == LoadLines(lines, n - 1)
             line == lines[n]
         IN  IF before.raised THEN before
             ELSE IF Len(line) = 0 THEN before
             ELSE IF LineMalformed(line) \/ LineUnknownVcs(line)
                  THEN [raised |-> TRUE, map |-> EmptyMap]
             ELSE [raised |-> FALSE,
                   map |-> [k \in (DOMAIN before.map) \cup {line[1]} |->
                              IF k = line[1] THEN line[3] ELSE before.map[k]]]

ParseSourcemap(lines) == LoadLines(lines, Len(lines))

\* No GitRepository object is in use as a library: do_updates builds its
\* own and never reads their rev_cache.
GitIdle ==
    /\ rev_cache = EmptyMap
    /\ refs = EmptyMap
    /\ store = EmptyMap
    /\ made = 0
    /\ gitlog = <<>>
    /\ ret = None
    /\ resolved = <<>>

----------------------------------------------------------------------------
(* git.py: effect of each git invocation on a mirror *)

NoMirror ==
    [url |-> None, remote |-> None, local |-> None,
     untracked |-> FALSE, modified |-> FALSE]

\* git clone source path
CloneOk(src) ==
    [url |-> src, remote |-> UpstreamTip(src), local |-> UpstreamTip(src),
     untracked |-> FALSE, modified |-> FALSE]

\* A clone that died after creating the directory and configuring the remote.
ClonePartial(src) == [NoMirror EXCEPT !.url = src]

\* git remote set-url origin source
SetUrlOk(m, src) == [m EXCEPT !.url = src]

\* git fetch --all
FetchOk(m) == [m EXCEPT !.remote = UpstreamTip(m.url)]

FetchFail(m) == {m, FetchOk(m)}

\* git clean -xfd
CleanOk(m) == [m EXCEPT !.untracked = FALSE]

CleanFail(m) == {m, CleanOk(m)}

\* git reset --hard
ResetOk(m) == [m EXCEPT !.modified = FALSE]

ResetFail(m) == {m, ResetOk(m)}

\* git checkout -B branch origin/branch
CheckoutCan(m) == m.remote # None

\* As CheckoutOk, merging origin/branch into the local branch: a fast
\* forward when the local branch is absent or behind, otherwise the merge
\* of the two (the local tip itself when it is ahead).
CheckoutMerges(m) ==
    [m EXCEPT !.local =
        IF m.local = None \/ m.local \in AncestorsOf(m.remote) THEN m.remote
        ELSE IF m.remote \in AncestorsOf(m.local) THEN m.local
        ELSE "c4"]

CheckoutOk(m) == [m EXCEPT !.local = m.remote]

Outcome(m, issued, raised) == [mirror |-> m, cmds |-> issued, raised |-> raised]

\* As remote_checkout, with the checkout issued before clean().
remote_checkout_then_clean(m) ==
    LET moved == CheckoutOk(m)
        cleaned == CleanOk(moved)
    IN  {Outcome(m, <<"checkout">>, TRUE)}
        \cup {Outcome(f, <<"checkout", "clean">>, TRUE) : f \in CleanFail(moved)}
        \cup {Outcome(f, <<"checkout", "clean", "reset">>, r) :
                 f \in {ResetOk(cleaned)}, r \in BOOLEAN}

\* GitRepository.remote_checkout(branch) on a mirror in state m: clean()
\* (git clean, then git reset), then the checkout.  Each outcome is the state
\* the mirror is left in, the git invocations issued, and whether one raised.
remote_checkout(m) ==
    LET cleaned == CleanOk(m)
        reset == ResetOk(cleaned)
    IN  {Outcome(f, <<"clean">>, TRUE) : f \in CleanFail(m)}
        \cup {Outcome(f, <<"clean", "reset">>, TRUE) : f \in ResetFail(cleaned)}
        \cup {Outcome(reset, <<"clean", "reset", "checkout">>, TRUE)}
        \cup (IF CheckoutCan(reset)
              THEN {Outcome(CheckoutOk(reset),
                            <<"clean", "reset", "checkout">>, FALSE)}
              ELSE {})

----------------------------------------------------------------------------
(* update.py: do_updates *)

Init ==
    /\ pc = "load"
    /\ run = 1
    /\ sourcemap \in Configs
    /\ repo_map = EmptyMap
    /\ pending = {}
    /\ cur = None
    /\ exists \in [Names -> BOOLEAN]
    /\ mirror = [r \in Names |-> IF exists[r] THEN CloneOk("u1") ELSE NoMirror]
    /\ cmds = <<>>
    /\ calls = <<>>
    /\ failed_clone = [r \in Names |-> None]
    /\ found = NoMirror
    /\ GitIdle

InitRuns ==
    /\ Init
    /\ Len(sourcemap) <= MaxRunLines

\* Every state an existing mirror directory can be found in.
MirrorStates ==
    [url : Urls, remote : Commits \cup {None}, local : Commits \cup {None},
     untracked : BOOLEAN, modified : BOOLEAN]

\* One tracked repository, its mirror absent or in any state.
InitMirror ==
    /\ pc = "load"
    /\ run = 1
    /\ sourcemap = <<(<<"a", "git", "u1">>)>>
    /\ repo_map = EmptyMap
    /\ pending = {}
    /\ cur = None
    /\ \E m \in MirrorStates \cup {NoMirror} :
         /\ exists = [r \in Names |-> r = "a" /\ m # NoMirror]
         /\ mirror = [r \in Names |-> IF r = "a" THEN m ELSE NoMirror]
    /\ cmds = <<>>
    /\ calls = <<>>
    /\ failed_clone = [r \in Names |-> None]
    /\ found = NoMirror
    /\ GitIdle

Log(op, r) == calls' = Append(calls, <<op, r>>)

\* An updater call that returned: the success report, then the next iteration.
Returned ==
    /\ Log("returned", cur)
    /\ failed_clone' = [failed_clone EXCEPT ![cur] = None]
    /\ pc' = "loop"

\* As UpdateCaught, with the try/except left out: the error leaves do_updates.
UpdateCaughtPropagates ==
    /\ Log("raised", cur)
    /\ failed_clone' = [failed_clone EXCEPT ![cur] = None]
    /\ pc' = "aborted"

\* The except clause around update_repo: report and go on with the loop.
UpdateCaught ==
    /\ Log("raised", cur)
    /\ failed_clone' = [failed_clone EXCEPT ![cur] = None]
    /\ pc' = "loop"

\* The except clause around init_repo: report and go on with the loop.
InitCaught(left) ==
    /\ Log("raised", cur)
    /\ failed_clone' = [failed_clone EXCEPT ![cur] = left]
    /\ pc' = "loop"

\* load_repositories() raising out of do_updates, which has no try around
\* it.
LoadRaises ==
    /\ pc' = "aborted"
    /\ UNCHANGED <<repo_map, pending>>

\* repo_map = load_repositories(): the refresh of the config repository and
\* the open of the sourcemap, either of which may raise, then the parse of
\* the lines.
LoadRepositories ==
    /\ pc = "load"
    /\ \/ LoadRaises
       \/ LET loaded == ParseSourcemap(sourcemap)
          IN  IF loaded.raised THEN LoadRaises
              ELSE /\ repo_map' = loaded.map
                   /\ pending' = DOMAIN loaded.map
                   /\ pc' = "loop"
    /\ UNCHANGED <<run, sourcemap, cur, exists, mirror, cmds, calls, failed_clone,
                   found>>

\* As PathPresent, with the branches of the test swapped.
PathPresentSwapped(r) == ~exists[r]

\* if os.path.isdir(repo_path)
PathPresent(r) == exists[r]

\* As LoopNext, yielding a key again after its init_repo.
LoopNextRevisits ==
    /\ pc = "loop"
    /\ \E r \in pending :
         /\ cur' = r
         /\ IF PathPresent(r)
            THEN /\ pc' = "seturl"
                 /\ pending' = pending \ {r}
                 /\ Log("update_repo", r)
            ELSE /\ pc' = "init"
                 /\ pending' = pending
                 /\ Log("init_repo", r)
    /\ cmds' = <<>>
    /\ found' = mirror[cur']
    /\ UNCHANGED <<run, sourcemap, repo_map, exists, mirror, failed_clone>>

\* As LoopNext, starting the updater without waiting for it to finish.
LoopNextNoWait ==
    /\ pc = "loop"
    /\ \E r \in pending :
         /\ cur' = r
         /\ pending' = pending \ {r}
         /\ IF PathPresent(r)
            THEN Log("update_repo", r)
            ELSE Log("init_repo", r)
    /\ pc' = "loop"
    /\ cmds' = <<>>
    /\ found' = mirror[cur']
    /\ UNCHANGED <<run, sourcemap, repo_map, exists, mirror, failed_clone>>

\* One iteration of the for loop up to the updater call.
LoopNext ==
    /\ pc = "loop"
    /\ \E r \in pending :
         /\ cur' = r
         /\ pending' = pending \ {r}
         /\ IF PathPresent(r)
            THEN pc' = "seturl" /\ Log("update_repo", r)
            ELSE pc' = "init" /\ Log("init_repo", r)
    /\ cmds' = <<>>
    /\ found' = mirror[cur']
    /\ UNCHANGED <<run, sourcemap, repo_map, exists, mirror, failed_clone>>

\* GitRepositoryUpdater.init_repo and its try/except.  A clone that raised
\* has either left nothing at the path or left a partial directory.
InitRepo ==
    /\ pc = "init"
    /\ \/ /\ exists' = [exists EXCEPT ![cur] = TRUE]
          /\ mirror' = [mirror EXCEPT ![cur] = CloneOk(repo_map[cur])]
          /\ Returned
       \/ /\ UNCHANGED <<exists, mirror>>
          /\ InitCaught("absent")
       \/ /\ exists' = [exists EXCEPT ![cur] = TRUE]
          /\ mirror' = [mirror EXCEPT ![cur] = ClonePartial(repo_map[cur])]
          /\ InitCaught("partial")
    /\ UNCHANGED <<run, sourcemap, repo_map, pending, cur, cmds, found>>

\* As UpdateSetUrl, removing a mirror that git rejects so that the next run
\* clones it afresh.
UpdateSetUrlRemovesMirror ==
    /\ pc = "seturl"
    /\ cmds' = Append(cmds, "set-url")
    /\ \/ /\ mirror' = [mirror EXCEPT ![cur] = SetUrlOk(@, repo_map[cur])]
          /\ pc' = "fetch"
          /\ UNCHANGED <<calls, failed_clone, exists>>
       \/ /\ mirror' = [mirror EXCEPT ![cur] = NoMirror]
          /\ exists' = [exists EXCEPT ![cur] = FALSE]
          /\ UpdateCaught
    /\ UNCHANGED <<run, sourcemap, repo_map, pending, cur, found>>

\* repo.git('remote', 'set-url', 'origin', self.source)
UpdateSetUrl ==
    /\ pc = "seturl"
    /\ cmds' = Append(cmds, "set-url")
    /\ \/ /\ mirror' = [mirror EXCEPT ![cur] = SetUrlOk(@, repo_map[cur])]
          /\ pc' = "fetch"
          /\ UNCHANGED <<calls, failed_clone>>
       \/ /\ UNCHANGED mirror
          /\ UpdateCaught
    /\ UNCHANGED <<run, sourcemap, repo_map, pending, cur, exists, found>>

\* repo.git('fetch', '--all')
UpdateFetch ==
    /\ pc = "fetch"
    /\ cmds' = Append(cmds, "fetch")
    /\ \/ /\ mirror' = [mirror EXCEPT ![cur] = FetchOk(@)]
          /\ pc' = "checkout"
          /\ UNCHANGED <<calls, failed_clone>>
       \/ /\ \E f \in FetchFail(mirror[cur]) :
               mirror' = [mirror EXCEPT ![cur] = f]
          /\ UpdateCaught
    /\ UNCHANGED <<run, sourcemap, repo_map, pending, cur, exists, found>>

\* repo.remote_checkout('master'), the last statement of update_repo.
UpdateCheckout ==
    /\ pc = "checkout"
    /\ \E o \in remote_checkout(mirror[cur]) :
         /\ mirror' = [mirror EXCEPT ![cur] = o.mirror]
         /\ cmds' = cmds \o o.cmds
         /\ IF o.raised THEN UpdateCaught ELSE Returned
    /\ UNCHANGED <<run, sourcemap, repo_map, pending, cur, exists, found>>

\* As LoopEnd, leaving the loop while keys are still pending.
LoopEndEarly ==
    /\ pc = "loop"
    /\ pc' = "index"
    /\ UNCHANGED <<run, sourcemap, repo_map, pending, cur, exists, mirror, cmds,
                   calls, failed_clone, found>>

\* The for loop is exhausted.
LoopEnd ==
    /\ pc = "loop"
    /\ pending = {}
    /\ pc' = "index"
    /\ UNCHANGED <<run, sourcemap, repo_map, pending, cur, exists, mirror, cmds,
                   calls, failed_clone, found>>

\* As RunIndex, with the try/except left out: an error of the indexer
\* leaves do_updates.
RunIndexPropagates ==
    /\ pc = "index"
    /\ \/ /\ calls' = calls \o <<(<<"index", None>>), <<"returned", None>>>>
          /\ pc' = "done"
       \/ /\ calls' = calls \o <<(<<"index", None>>), <<"raised", None>>>>
          /\ pc' = "aborted"
    /\ UNCHANGED <<run, sourcemap, repo_map, pending, cur, exists, mirror, cmds,
                   failed_clone, found>>

\* subprocess.check_call(["/usr/opengrok/OpenGrok", "index"]) and its
\* try/except.
RunIndex ==
    /\ pc = "index"
    /\ \E outcome \in {"returned", "raised"} :
         calls' = calls \o <<(<<"index", None>>), <<outcome, None>>>>
    /\ pc' = "done"
    /\ UNCHANGED <<run, sourcemap, repo_map, pending, cur, exists, mirror, cmds,
                   failed_clone, found>>

\* The next periodic invocation of the script, on the same configuration.
NextRun ==
    /\ pc \in {"done", "aborted"}
    /\ run < MaxRuns
    /\ run' = run + 1
    /\ pc' = "load"
    /\ repo_map' = EmptyMap
    /\ pending' = {}
    /\ cur' = None
    /\ cmds' = <<>>
    /\ calls' = <<>>
    /\ found' = NoMirror
    /\ UNCHANGED <<sourcemap, exists, mirror, failed_clone>>

Next ==
    \/ LoadRepositories /\ UNCHANGED git_vars
    \/ LoopNext /\ UNCHANGED git_vars
    \/ InitRepo /\ UNCHANGED git_vars
    \/ UpdateSetUrl /\ UNCHANGED git_vars
    \/ UpdateFetch /\ UNCHANGED git_vars
    \/ UpdateCheckout /\ UNCHANGED git_vars
    \/ LoopEnd /\ UNCHANGED git_vars
    \/ RunIndex /\ UNCHANGED git_vars

\* One run of do_updates, on any sourcemap of up to MaxLines lines.
Spec == Init /\ [][Next]_vars

\* One run of do_updates on one repository whose mirror is in any state.
SpecMirror == InitMirror /\ [][Next]_vars

\* One run of do_updates on any sourcemap of up to MaxRunLines lines, in
\* which the interpreter goes on to the next statement whenever there is one
\* and every external call returns or raises.
SpecLive == InitRuns /\ [][Next]_vars /\ WF_vars(Next)

\* Up to MaxRuns successive runs, on any sourcemap of up to MaxRunLines lines.
SpecRuns == InitRuns /\ [][Next \/ (NextRun /\ UNCHANGED git_vars)]_vars

----------------------------------------------------------------------------
(* git.py as a library: the repository the calls are made on *)

MaxObjects == 3
MaxOperands == 2
MaxDescLines == 4

\* The objects of the repository: the commit graph above, r1, a root that
\* shares no history with it, and e1, a child of c1 committed with an empty
\* message.
Objects == Commits \cup {"r1", "e1"}

\* The parent headers of each object, in the order git prints them.
ParentList(h) ==
    CASE h = "c1" -> <<>>
      [] h = "c2" -> <<"c1">>
      [] h = "c3" -> <<"c1">>
      [] h = "c4" -> <<"c2", "c3">>
      [] h = "r1" -> <<>>
      [] h = "e1" -> <<"c1">>

Range(s) == {s[i] : i \in DOMAIN s}

\* The commits reachable from h, h included.
RECURSIVE History(_)
History(h) == {h} \cup UNION {History(p) : p \in Range(ParentList(h))}

\* A line of text is held as the parts line.split(' ', 1) cuts it into; the
\* empty line is cut into the one part ''.
BlankLine == <<"">>

\* What git cat-file commit prints for h, one element per line: the tree
\* header, the parent headers, the author header, the blank line that ends
\* the headers, then the lines of the message.
RawDesc(h) ==
    <<(<<"tree", "t1">>)>>
        \o [i \in DOMAIN ParentList(h) |-> <<"parent", ParentList(h)[i]>>]
        \o <<(<<"author", "x">>), BlankLine>>
        \o (IF h = "e1" THEN <<>> ELSE <<(<<"fix", "bug">>)>>)

ObjectStore == [h \in Objects |-> RawDesc(h)]

\* The lines a description is drawn from when any text may come back.
DescLines ==
    {BlankLine, <<"tree", "t1">>, <<"tree", "t2">>, <<"parent", "c1">>,
     <<"parent", "c2">>, <<"author", "x">>, <<"fix">>}

Descs == SeqsUpTo(DescLines, MaxDescLines)

----------------------------------------------------------------------------
(* git.py: GitCommit.__init__ *)

RECURSIVE DropLeadingBlank(_)
DropLeadingBlank(lines) ==
    IF lines = <<>> THEN lines
    ELSE IF Head(lines) = BlankLine THEN DropLeadingBlank(Tail(lines))
    ELSE lines

RECURSIVE DropTrailingBlank(_)
DropTrailingBlank(lines) ==
    IF lines = <<>> THEN lines
    ELSE IF lines[Len(lines)] = BlankLine
         THEN DropTrailingBlank(SubSeq(lines, 1, Len(lines) - 1))
    ELSE lines

\* text.strip().split("\n"): the empty lines at both ends of the text go with
\* the surrounding whitespace, and the empty text splits into one empty line.
StripSplit(text) ==
    LET core == DropTrailingBlank(DropLeadingBlank(text))
    IN  IF core = <<>> THEN <<BlankLine>> ELSE core

\* self.desc of the commit built from text
DescOf(text) == StripSplit(text)

BlankAt(lines) == {i \in DOMAIN lines : lines[i] = BlankLine}

Min(S) == CHOOSE i \in S : \A j \in S : i <= j

\* The parse of __init__: raised when lines.index('') finds no empty line or
\* when the unpacking of the tree fields gets none or more than one.
ParseDesc(text) ==
    LET lines == StripSplit(text)
        failed == [raised |-> TRUE, tree |-> None, parents |-> <<>>,
                   summary |-> <<>>]
    IN  IF BlankAt(lines) = {} THEN failed
        ELSE LET seperator == Min(BlankAt(lines))
                 fields == SubSeq(lines, 1, seperator - 1)
                 trees == SelectSeq(fields, LAMBDA f : f[1] = "tree")
                 parents == SelectSeq(fields, LAMBDA f : f[1] = "parent")
             IN  IF Len(trees) # 1 THEN failed
                 ELSE [raised |-> FALSE,
                       tree |-> trees[1][2],
                       parents |-> [i \in DOMAIN parents |-> parents[i][2]],
                       summary |-> SubSeq(lines, seperator + 1, Len(lines))]

\* git rev-parse name, when it succeeds: a hash names itself, a ref names the
\* commit it points at.
RevParse(name) ==
    IF name \in Objects THEN {name}
    ELSE IF name \in DOMAIN refs /\ refs[name] # None THEN {refs[name]}
    ELSE {}

\* git cat-file commit hash, when it succeeds.
CatFile(hash) == IF hash \in DOMAIN store THEN {store[hash]} ELSE {}

\* A constructor that raised: the git invocations it made and the exit
\* status of the last one.
Failure(log, code) ==
    [raised |-> TRUE, log |-> log, code |-> code, hash |-> None,
     tree |-> None, parents |-> <<>>, summary |-> <<>>]

\* GitCommit(repo, name): every way the constructor can end.  Either git
\* invocation may raise; the parse may raise.
GitCommit(name) ==
    LET revparse == <<"rev-parse", name>>
    IN  {Failure(<<revparse>>, 128)}
        \cup UNION {
            LET log == <<revparse, <<"cat-file", h>>>>
            IN  {Failure(log, 128)}
                \cup {LET p == ParseDesc(text)
                      IN  IF p.raised THEN Failure(log, 0)
                          ELSE [raised |-> FALSE, log |-> log, code |-> 0,
                                hash |-> h, tree |-> p.tree,
                                parents |-> p.parents,
                                summary |-> p.summary]
                      : text \in CatFile(h)}
            : h \in RevParse(name)}

\* The GitCommit object number id that the constructor outcome o leaves.
Object(id, o) ==
    [id |-> id, hash |-> o.hash, tree |-> o.tree, parents |-> o.parents,
     summary |-> o.summary]

NoCommit ==
    [id |-> 0, hash |-> None, tree |-> None, parents |-> <<>>, summary |-> <<>>]

NoCall ==
    [op |-> None, args |-> <<>>, raised |-> FALSE, commit |-> NoCommit,
     truth |-> None, code |-> 0]

\* A call that returned nothing.
Done(op, args) == [NoCall EXCEPT !.op = op, !.args = args]

\* A call that raised, the last git invocation having exited with code.
Threw(op, args, code) ==
    [NoCall EXCEPT !.op = op, !.args = args, !.raised = TRUE, !.code = code]

\* A call that returned a GitCommit object.
Gave(op, args, commit) ==
    [NoCall EXCEPT !.op = op, !.args = args, !.commit = commit]

----------------------------------------------------------------------------
(* git.py: GitRepository *)

Specifiers == {"refs/heads/master^{}", "refs/tags/v1^{}"}

\* read_branch_head(name) and read_tag(name) call get_rev on these.
BranchHead(name) == CASE name = "master" -> "refs/heads/master^{}"

\* The commits a ref of the repository is moved between.
Tips == {"c1", "c2", "e1"}

Cached == Range(rev_cache)

\* As GetRev, resolving the specifier on every call.
GetRevUncached(name) ==
    /\ made < MaxObjects
    /\ \E o \in GitCommit(name) :
         /\ gitlog' = o.log
         /\ IF o.raised
            THEN /\ ret' = Threw("get_rev", <<name>>, o.code)
                 /\ UNCHANGED <<rev_cache, made, resolved>>
            ELSE LET commit == Object(made + 1, o)
                 IN  /\ rev_cache' =
                            [k \in DOMAIN rev_cache \cup {name} |->
                               IF k = name THEN commit ELSE rev_cache[k]]
                     /\ made' = made + 1
                     /\ resolved' = Append(resolved, <<name, made + 1>>)
                     /\ ret' = Gave("get_rev", <<name>>, commit)
    /\ UNCHANGED <<refs, store>>

\* As GetRev, entering the object in the cache before its constructor has
\* run.
GetRevCachesFirst(name) ==
    /\ IF name \in DOMAIN rev_cache
       THEN /\ gitlog' = <<>>
            /\ ret' = Gave("get_rev", <<name>>, rev_cache[name])
            /\ UNCHANGED <<rev_cache, made, resolved>>
       ELSE /\ made < MaxObjects
            /\ \E o \in GitCommit(name) :
                 LET commit == Object(made + 1, o)
                 IN  /\ gitlog' = o.log
                     /\ rev_cache' =
                            [k \in DOMAIN rev_cache \cup {name} |->
                               IF k = name THEN commit ELSE rev_cache[k]]
                     /\ made' = made + 1
                     /\ IF o.raised
                        THEN /\ ret' = Threw("get_rev", <<name>>, o.code)
                             /\ UNCHANGED resolved
                        ELSE /\ resolved' = Append(resolved, <<name, made + 1>>)
                             /\ ret' = Gave("get_rev", <<name>>, commit)
    /\ UNCHANGED <<refs, store>>

\* get_rev(name): the cached object when there is one, otherwise a new
\* GitCommit, entered in the cache once its constructor has returned.
GetRev(name) ==
    /\ IF name \in DOMAIN rev_cache
       THEN /\ gitlog' = <<>>
            /\ ret' = Gave("get_rev", <<name>>, rev_cache[name])
            /\ UNCHANGED <<rev_cache, made, resolved>>
       ELSE /\ made < MaxObjects
            /\ \E o \in GitCommit(name) :
                 /\ gitlog' = o.log
                 /\ IF o.raised
                    THEN /\ ret' = Threw("get_rev", <<name>>, o.code)
                         /\ UNCHANGED <<rev_cache, made, resolved>>
                    ELSE LET commit == Object(made + 1, o)
                         IN  /\ rev_cache' =
                                    [k \in DOMAIN rev_cache \cup {name} |->
                                       IF k = name THEN commit
                                       ELSE rev_cache[k]]
                             /\ made' = made + 1
                             /\ resolved' =
                                    Append(resolved, <<name, made + 1>>)
                             /\ ret' = Gave("get_rev", <<name>>, commit)
    /\ UNCHANGED <<refs, store>>

\* The git invocations of clean() and whether it raised: git clean -xfd may
\* raise, then git reset --hard may.
CleanRuns ==
    {[raised |-> TRUE, log |-> <<(<<"clean", "-xfd">>)>>],
     [raised |-> TRUE, log |-> <<(<<"clean", "-xfd">>), <<"reset", "--hard">>>>],
     [raised |-> FALSE, log |-> <<(<<"clean", "-xfd">>), <<"reset", "--hard">>>>]}

\* clean()
Clean ==
    /\ \E o \in CleanRuns :
         /\ gitlog' = o.log
         /\ ret' = IF o.raised THEN Threw("clean", <<>>, 1) ELSE Done("clean", <<>>)
    /\ UNCHANGED <<rev_cache, refs, store, made, resolved>>

\* As RemoteCheckout, forgetting the resolved revisions once the branch has
\* moved.
RemoteCheckoutForgets(branch) ==
    /\ \E o \in CleanRuns :
         \/ /\ o.raised
            /\ gitlog' = o.log
            /\ ret' = Threw("remote_checkout", <<branch>>, 1)
            /\ UNCHANGED <<refs, rev_cache>>
         \/ /\ ~o.raised
            /\ gitlog' = Append(o.log, <<"checkout", branch>>)
            /\ \/ /\ ret' = Threw("remote_checkout", <<branch>>, 1)
                  /\ UNCHANGED <<refs, rev_cache>>
               \/ /\ \E tip \in Tips :
                       refs' = [refs EXCEPT ![BranchHead(branch)] = tip]
                  /\ rev_cache' = EmptyMap
                  /\ ret' = Done("remote_checkout", <<branch>>)
    /\ UNCHANGED <<store, made, resolved>>

\* remote_checkout(branch): clean(), then git checkout -B branch
\* origin/branch, which leaves the branch at the commit origin/branch is at.
RemoteCheckout(branch) ==
    /\ \E o \in CleanRuns :
         \/ /\ o.raised
            /\ gitlog' = o.log
            /\ ret' = Threw("remote_checkout", <<branch>>, 1)
            /\ UNCHANGED refs
         \/ /\ ~o.raised
            /\ gitlog' = Append(o.log, <<"checkout", branch>>)
            /\ \/ /\ ret' = Threw("remote_checkout", <<branch>>, 1)
                  /\ UNCHANGED refs
               \/ /\ \E tip \in Tips :
                       refs' = [refs EXCEPT ![BranchHead(branch)] = tip]
                  /\ ret' = Done("remote_checkout", <<branch>>)
    /\ UNCHANGED <<rev_cache, store, made, resolved>>

\* push(ref)
Push(ref) ==
    /\ gitlog' = <<(<<"push", ref>>)>>
    /\ ret' \in {Done("push", <<ref>>), Threw("push", <<ref>>, 1)}
    /\ UNCHANGED <<rev_cache, refs, store, made, resolved>>

\* git(...) with a command that moves, creates or deletes a ref, such as
\* fetch, tag -f or update-ref.
Git ==
    /\ gitlog' = <<(<<"update-ref">>)>>
    /\ \/ /\ ret' = Threw("git", <<>>, 1)
          /\ UNCHANGED refs
       \/ /\ ret' = Done("git", <<>>)
          /\ \E s \in DOMAIN refs, tip \in Tips \cup {None} :
               refs' = [refs EXCEPT ![s] = tip]
    /\ UNCHANGED <<rev_cache, store, made, resolved>>

----------------------------------------------------------------------------
(* git.py: ancestry *)

\* What git merge-base a b prints when it succeeds: a best common ancestor,
\* i.e. a common ancestor that no other common ancestor descends from.  With
\* no common ancestor it exits with status 1.
MergeBase(a, b) ==
    LET common == History(a) \cap History(b)
    IN  {c \in common : \A d \in common : c \in History(d) => d = c}

\* The exit status of git merge-base --is-ancestor older newer: 0 when older
\* is reachable from newer, 1 when it is not, 128 when git fails.
IsAncestorExit(older, newer) ==
    (IF older \in History(newer) THEN {0} ELSE {1}) \cup {128}

Bool(b) == IF b THEN "True" ELSE "False"

Answer(truth) == [raised |-> FALSE, truth |-> truth, code |-> 0]

\* As is_ancestor, taking every exit status but 0 for a no.
is_ancestor_lenient(rev_older, rev_newer) ==
    {[raised |-> FALSE, truth |-> Bool(code = 0), code |-> code]
       : code \in IsAncestorExit(rev_older, rev_newer)}

\* is_ancestor(rev_older, rev_newer): True when git returned, False when it
\* exited with status 1, the error raised again otherwise.
is_ancestor(rev_older, rev_newer) ==
    {[raised |-> code \notin {0, 1},
      truth |-> IF code = 0 THEN "True" ELSE IF code = 1 THEN "False" ELSE None,
      code |-> code]
       : code \in IsAncestorExit(rev_older, rev_newer)}

\* __eq__ and __ne__
eq(self, rev2) == {Answer(Bool(self.hash = rev2.hash))}
ne(self, rev2) == {Answer(Bool(self.hash # rev2.hash))}

\* __le__ and __ge__
le(self, rev2) == is_ancestor(self.hash, rev2.hash)
ge(self, rev2) == is_ancestor(rev2.hash, self.hash)

\* x and not self == rev2, for each way x can come out: an error leaves the
\* expression, a False is its value, a True hands over to the right operand.
AndNotEqual(x, self, rev2) ==
    {IF r.raised \/ r.truth = "False" THEN r
     ELSE [r EXCEPT !.truth = Bool(self.hash # rev2.hash)]
       : r \in x}

\* As lt, without the test for equality.
lt_or_equal(self, rev2) == le(self, rev2)

\* __lt__ and __gt__
lt(self, rev2) == AndNotEqual(le(self, rev2), self, rev2)
gt(self, rev2) == AndNotEqual(ge(self, rev2), self, rev2)

Comparisons == {"eq", "ne", "le", "ge", "lt", "gt"}

Comparison(op, self, rev2) ==
    CASE op = "eq" -> eq(self, rev2)
      [] op = "ne" -> ne(self, rev2)
      [] op = "le" -> le(self, rev2)
      [] op = "ge" -> ge(self, rev2)
      [] op = "lt" -> lt(self, rev2)
      [] op = "gt" -> gt(self, rev2)

\* As get_common_ancestor, with its first argument passed twice.
get_common_ancestor_of_first(rev1, rev2) ==
    LET mergebase == <<"merge-base", rev1.hash, rev1.hash>>
    IN  {Failure(<<mergebase>>, 128)}
        \cup UNION {{[o EXCEPT !.log = <<mergebase>> \o @] : o \in GitCommit(h)}
                      : h \in MergeBase(rev1.hash, rev1.hash)}

\* get_common_ancestor(rev1, rev2): every way it can end.  git merge-base may
\* raise, and so may the constructor of the GitCommit built on its output.
get_common_ancestor(rev1, rev2) ==
    LET mergebase == <<"merge-base", rev1.hash, rev2.hash>>
        best == MergeBase(rev1.hash, rev2.hash)
    IN  {Failure(<<mergebase>>, 128)}
        \cup (IF best = {} THEN {Failure(<<mergebase>>, 1)} ELSE {})
        \cup UNION {{[o EXCEPT !.log = <<mergebase>> \o @] : o \in GitCommit(h)}
                      : h \in best}

\* repo.is_ancestor(rev_older, rev_newer) on two resolved commits
IsAncestor ==
    /\ \E a \in Cached, b \in Cached :
         \E r \in is_ancestor(a.hash, b.hash) :
             /\ gitlog' = <<(<<"merge-base", "--is-ancestor", a.hash, b.hash>>)>>
             /\ ret' = [NoCall EXCEPT !.op = "is_ancestor",
                                      !.args = <<a.hash, b.hash>>,
                                      !.raised = r.raised,
                                      !.truth = r.truth,
                                      !.code = r.code]
    /\ UNCHANGED <<rev_cache, refs, store, made, resolved>>

\* A comparison of two resolved commits.
Compare ==
    /\ \E op \in Comparisons, a \in Cached, b \in Cached :
         \E r \in Comparison(op, a, b) :
             ret' = [NoCall EXCEPT !.op = op,
                                   !.args = <<a.hash, b.hash>>,
                                   !.raised = r.raised,
                                   !.truth = r.truth,
                                   !.code = r.code]
    /\ gitlog' = <<>>
    /\ UNCHANGED <<rev_cache, refs, store, made, resolved>>

\* rev1 & rev2, i.e. repo.get_common_ancestor(rev1, rev2), on two resolved
\* commits.
GetCommonAncestor ==
    /\ made < MaxObjects
    /\ \E a \in Cached, b \in Cached :
         \E o \in get_common_ancestor(a, b) :
             /\ gitlog' = o.log
             /\ IF o.raised
                THEN /\ ret' = Threw("get_common_ancestor", <<a.hash, b.hash>>,
                                     o.code)
                     /\ UNCHANGED made
                ELSE /\ ret' = Gave("get_common_ancestor", <<a.hash, b.hash>>,
                                    Object(made + 1, o))
                     /\ made' = made + 1
    /\ UNCHANGED <<rev_cache, refs, store, resolved>>

----------------------------------------------------------------------------
(* git.py: the specifications of the library *)

\* do_updates is not running.
UpdaterIdle ==
    /\ pc = "idle"
    /\ run = 1
    /\ sourcemap = <<>>
    /\ repo_map = EmptyMap
    /\ pending = {}
    /\ cur = None
    /\ exists = [r \in Names |-> FALSE]
    /\ mirror = [r \in Names |-> NoMirror]
    /\ cmds = <<>>
    /\ calls = <<>>
    /\ failed_clone = [r \in Names |-> None]
    /\ found = NoMirror

\* A new GitRepository object on a repository with the given refs and
\* objects.
NewRepository(r, s) ==
    /\ rev_cache = EmptyMap
    /\ refs = r
    /\ store = s
    /\ made = 0
    /\ gitlog = <<>>
    /\ ret = NoCall
    /\ resolved = <<>>

\* A repository whose branch and tag are anywhere, or missing.
InitCache ==
    /\ UpdaterIdle
    /\ \E r \in [Specifiers -> Tips \cup {None}] : NewRepository(r, ObjectStore)

CacheNext ==
    \/ \E name \in Specifiers : GetRev(name) /\ UNCHANGED updater_vars
    \/ Clean /\ UNCHANGED updater_vars
    \/ RemoteCheckout("master") /\ UNCHANGED updater_vars
    \/ \E name \in Specifiers : Push(name) /\ UNCHANGED updater_vars
    \/ Git /\ UNCHANGED updater_vars
    \/ GetCommonAncestor /\ UNCHANGED updater_vars

\* Calls on one GitRepository object while its refs move.
SpecCache == InitCache /\ [][CacheNext]_vars

\* A repository addressed by the hashes of its objects.
InitOrder ==
    /\ UpdaterIdle
    /\ NewRepository(EmptyMap, ObjectStore)

\* At most MaxOperands commits are resolved for comparing.
OrderNext ==
    \/ /\ Cardinality(DOMAIN rev_cache) < MaxOperands
       /\ \E hash \in Objects : GetRev(hash) /\ UNCHANGED updater_vars
    \/ IsAncestor /\ UNCHANGED updater_vars
    \/ Compare /\ UNCHANGED updater_vars
    \/ GetCommonAncestor /\ UNCHANGED updater_vars

\* Comparisons of the commits of one repository.
SpecOrder == InitOrder /\ [][OrderNext]_vars

\* A repository whose HEAD is an object for which git cat-file prints any
\* text of up to MaxDescLines lines.
InitParse ==
    /\ UpdaterIdle
    /\ \E text \in Descs :
         NewRepository([name \in {"HEAD"} |-> "c1"], [h \in {"c1"} |-> text])

ParseNext ==
    \/ GetRev("HEAD") /\ UNCHANGED updater_vars

\* The resolution of one commit from any description.
SpecParse == InitParse /\ [][ParseNext]_vars

----------------------------------------------------------------------------
(* Reading the record of a run *)

AttemptOps == {"init_repo", "update_repo"}
OutcomeOps == {"returned", "raised"}

\* Positions in calls of the updater calls made on r.
Attempts(r) == {i \in DOMAIN calls : calls[i][1] \in AttemptOps /\ calls[i][2] = r}

\* Positions in calls of the outcomes of the updater calls made on r.
Finishes(r) == {i \in DOMAIN calls : calls[i][1] \in OutcomeOps /\ calls[i][2] = r}

\* Positions in calls of the invocations of the indexing trigger.
IndexCalls == {i \in DOMAIN calls : calls[i] = <<"index", None>>}

Raised(r) == \E i \in Finishes(r) : calls[i][1] = "raised"

Tracked == DOMAIN repo_map

\* A sourcemap line that is neither blank nor "name git locator".
BadLine(line) == Len(line) \in {1, 2} \/ (Len(line) = 3 /\ line[2] # "git")

BadConfig == \E i \in DOMAIN sourcemap : BadLine(sourcemap[i])

----------------------------------------------------------------------------
(* C1 *)

\* C1: once the configuration is loaded the run cannot abort; when the loop
\* is over every repository of the loaded map has been attempted, whatever
\* attempts raised, and a finished run has invoked the indexing trigger.
C1_FailureNeverBlocksOthers ==
    /\ pc = "aborted" => calls = <<>> /\ Tracked = {}
    /\ pc \in {"index", "done"} => \A r \in Tracked : Attempts(r) # {}
    /\ pc = "done" => IndexCalls # {}

\* Three repositories, the second attempt an update_repo that raised, the
\* first and the third attempted and returned, the trigger invoked.
C1_Witness ==
    /\ pc = "done"
    /\ Cardinality(Tracked) = 3
    /\ Len(calls) = 8
    /\ calls[2][1] = "returned"
    /\ calls[3][1] = "update_repo"
    /\ calls[4][1] = "raised"
    /\ calls[6][1] = "returned"
    /\ calls[7] = <<"index", None>>

----------------------------------------------------------------------------
(* C2 *)

\* C2: the indexing trigger is invoked at most once while a run is under way
\* and exactly once in a finished run, after the outcome of every tracked
\* repository's attempt, and no attempt starts after it.
C2_IndexOnceAfterAllAttempts ==
    /\ Cardinality(IndexCalls) <= 1
    /\ pc = "done" => Cardinality(IndexCalls) = 1
    /\ \A i \in IndexCalls :
         /\ \A r \in Tracked : \E j \in Finishes(r) : j < i
         /\ \A j \in DOMAIN calls : calls[j][1] \in AttemptOps => j < i

\* A finished run over at least two repositories, one of whose attempts
\* raised.
C2_Witness ==
    /\ pc = "done"
    /\ Cardinality(Tracked) >= 2
    /\ \E r \in Tracked : Raised(r)
    /\ Cardinality(IndexCalls) = 1

----------------------------------------------------------------------------
(* C3 *)

\* C3: while init_repo runs on a repository its path was absent when it was
\* inspected and is still absent, and the call recorded is init_repo; while
\* update_repo runs the path exists and the call recorded is update_repo.
C3_InitIffAbsent ==
    /\ pc = "init" =>
         /\ ~exists[cur]
         /\ calls[Len(calls)] = <<"init_repo", cur>>
    /\ pc \in {"seturl", "fetch", "checkout"} =>
         /\ exists[cur]
         /\ calls[Len(calls)] = <<"update_repo", cur>>

\* init_repo is running on an absent path in a run that has already called
\* update_repo on an existing one.
C3_Witness ==
    /\ pc = "init"
    /\ ~exists[cur]
    /\ \E i \in DOMAIN calls : calls[i][1] = "update_repo" /\ exists[calls[i][2]]

----------------------------------------------------------------------------
(* C4 *)

\* C4: in one run every repository has at most one updater call and at most
\* one outcome.
C4_AtMostOneAttempt ==
    \A r \in Names :
        /\ Cardinality(Attempts(r)) <= 1
        /\ Cardinality(Finishes(r)) <= 1

\* A finished run in which one init_repo returned and another attempt
\* raised, each repository with its single call.
C4_Witness ==
    /\ pc = "done"
    /\ \E r \in Tracked : Raised(r)
    /\ \E r \in Tracked :
         /\ ~Raised(r)
         /\ \E i \in Attempts(r) : calls[i][1] = "init_repo"

----------------------------------------------------------------------------
(* C5 *)

\* C5: with a malformed line or a line naming an unknown VCS kind in the
\* sourcemap, the run never gets past loading: no repository is in the map,
\* no updater call and no indexing call is made.
C5_BadConfigAborts ==
    BadConfig =>
        /\ pc \in {"load", "aborted"}
        /\ Tracked = {}
        /\ calls = <<>>

\* A run aborted on a sourcemap whose valid first entry is followed by a
\* malformed line and by a line naming an unknown VCS kind.
C5_Witness ==
    /\ pc = "aborted"
    /\ Len(sourcemap) = 3
    /\ sourcemap[1] = <<"b", "git", "u1">>
    /\ Len(sourcemap[2]) = 2
    /\ sourcemap[3] = <<"a", "svn", "u1">>
    /\ ~exists["b"]

----------------------------------------------------------------------------
(* C6 *)

\* The name a non-blank sourcemap line declares.
Declares(i, r) == Len(sourcemap[i]) > 0 /\ sourcemap[i][1] = r

\* Some line declaring x precedes some line declaring y.
DeclaredBefore(x, y) ==
    \E k, l \in DOMAIN sourcemap : k < l /\ Declares(k, x) /\ Declares(l, y)

\* C6 as stated: repositories are attempted in the order of their lines in
\* the sourcemap.
C6_DeclarationOrder ==
    \A i, j \in DOMAIN calls :
        (i < j /\ calls[i][1] \in AttemptOps /\ calls[j][1] \in AttemptOps)
            => DeclaredBefore(calls[i][2], calls[j][2])

\* C6 as amended: repositories are attempted one at a time, in the order the
\* map yields its keys: every updater call is followed at once by its own
\* outcome, the call still without an outcome is the one in progress, and
\* only keys of the map are attempted.
C6_OneAtATime ==
    \A i \in DOMAIN calls : calls[i][1] \in AttemptOps =>
        /\ calls[i][2] \in Tracked
        /\ IF i < Len(calls)
           THEN calls[i + 1][1] \in OutcomeOps /\ calls[i + 1][2] = calls[i][2]
           ELSE pc \in {"init", "seturl", "fetch", "checkout"} /\ cur = calls[i][2]

\* A finished run that attempted b, let it finish, and then attempted a, on
\* a sourcemap that declares a before b.
C6_Witness ==
    /\ pc = "done"
    /\ sourcemap = <<(<<"a", "git", "u1">>), <<"b", "git", "u1">>>>
    /\ Len(calls) = 6
    /\ calls[1][2] = "b"
    /\ calls[2] = <<"raised", "b">>
    /\ calls[3][2] = "a"
    /\ calls[4] = <<"returned", "a">>

----------------------------------------------------------------------------
(* C7 *)

UpdateSteps == <<"set-url", "fetch", "clean", "reset", "checkout">>

IsPrefix(s, t) == Len(s) <= Len(t) /\ \A i \in DOMAIN s : s[i] = t[i]

Last(s) == s[Len(s)]

\* The working tree and the local branch of cur are as the attempt found
\* them.
TreeUntouched ==
    /\ mirror[cur].local = found.local
    /\ mirror[cur].untracked = found.untracked
    /\ mirror[cur].modified = found.modified

\* C7: the git invocations of update_repo are a prefix of set-url, fetch,
\* clean, reset, checkout; fetch is issued with origin repointed to the
\* configured locator, remote_checkout with the refs of that locator
\* fetched; an update_repo that returned issued all five; and as long as
\* nothing after fetch has been issued, also when set-url or fetch raised,
\* the working tree and the local branch are untouched.
C7_UpdateStepsInOrder ==
    /\ IsPrefix(cmds, UpdateSteps)
    /\ pc = "fetch" =>
         cmds = <<"set-url">> /\ mirror[cur].url = repo_map[cur]
    /\ pc = "checkout" =>
         /\ cmds = <<"set-url", "fetch">>
         /\ mirror[cur].url = repo_map[cur]
         /\ mirror[cur].remote = UpstreamTip(repo_map[cur])
    /\ (pc = "loop" /\ cmds # <<>> /\ Last(calls) = <<"returned", cur>>) =>
         cmds = UpdateSteps
    /\ (cmds # <<>> /\ Len(cmds) <= 2) => TreeUntouched

\* An update_repo whose fetch raised on a mirror with untracked files, local
\* modifications and a local branch that is not at the remote tip.
C7_Witness ==
    /\ pc = "loop"
    /\ cmds = <<"set-url", "fetch">>
    /\ Last(calls) = <<"raised", cur>>
    /\ mirror[cur].untracked
    /\ mirror[cur].modified
    /\ mirror[cur].local = "c4"
    /\ mirror[cur].remote = "c2"

----------------------------------------------------------------------------
(* C8 *)

\* update_repo, whose last statement is remote_checkout('master'), has just
\* returned on cur.
CheckoutReturned ==
    /\ pc = "loop"
    /\ cmds # <<>>
    /\ Last(calls) = <<"returned", cur>>

Diverged(x, y) == x \notin AncestorsOf(y) /\ y \notin AncestorsOf(x)

\* C8: when remote_checkout has returned, the local branch is at the tip of
\* origin/master, which exists, and the working tree has neither untracked
\* files nor local modifications, whatever the mirror was like before.
C8_LocalMatchesRemote ==
    CheckoutReturned =>
        /\ mirror[cur].remote \in Commits
        /\ mirror[cur].local = mirror[cur].remote
        /\ ~mirror[cur].untracked
        /\ ~mirror[cur].modified

\* remote_checkout has returned on a mirror that had untracked files, local
\* modifications and a local branch diverged from the tip it now equals.
C8_Witness ==
    /\ CheckoutReturned
    /\ found.untracked
    /\ found.modified
    /\ found.local \in Commits
    /\ Diverged(found.local, mirror[cur].remote)
    /\ mirror[cur].local = mirror[cur].remote

----------------------------------------------------------------------------
(* C9 *)

UpdateInProgress == pc \in {"seturl", "fetch", "checkout"}

\* C9 as stated: a repository whose init_repo raised is absent when the
\* next run starts, and its next attempt is an init_repo again, never an
\* update_repo.
C9_FailedInitStaysAbsent ==
    \A r \in Names : failed_clone[r] # None =>
        /\ pc = "load" => ~exists[r]
        /\ ~(UpdateInProgress /\ cur = r)

\* C9 as amended: a repository whose init_repo raised with nothing left at
\* the path stays absent and its next attempt is an init_repo again; one
\* whose failed clone left a directory stays present and its next attempt is
\* an update_repo.
C9_FailedInitFollowsResidue ==
    \A r \in Names :
        /\ failed_clone[r] = "absent" =>
             ~exists[r] /\ ~(UpdateInProgress /\ cur = r)
        /\ failed_clone[r] = "partial" =>
             exists[r] /\ ~(pc = "init" /\ cur = r)

\* The second run is calling init_repo on a repository whose init_repo
\* raised in the first run and left nothing.
C9_Witness ==
    /\ run = 2
    /\ pc = "init"
    /\ failed_clone[cur] = "absent"

----------------------------------------------------------------------------
(* C10 *)

\* C10: no step takes a mirror path that exists to one that does not.
C10_NeverPresentToAbsent ==
    [][\A r \in Names : exists[r] => exists'[r]]_vars

\* The second run is over and a mirror whose update_repo raised in it, after
\* its git clean had run, is still there.
C10_Witness ==
    /\ run = 2
    /\ pc = "done"
    /\ \E r \in Tracked :
         /\ exists[r]
         /\ calls[1] = <<"update_repo", r>>
         /\ calls[2] = <<"raised", r>>
         /\ cur = r
         /\ Len(cmds) >= 3

----------------------------------------------------------------------------
(* C11 *)

\* Positions in the sourcemap of the lines left after comment removal and
\* stripping, i.e. the lines that declare a repository.
EntryLines == {i \in DOMAIN sourcemap : Len(sourcemap[i]) > 0}

\* The last position at which the sourcemap declares r.
LastDeclared(r) ==
    CHOOSE i \in EntryLines :
        /\ sourcemap[i][1] = r
        /\ \A j \in EntryLines : sourcemap[j][1] = r => j <= i

Loaded == pc \notin {"load", "aborted"}

\* C11 as stated: the loaded map holds as many repositories as the sourcemap
\* has non-comment, non-blank lines, and a finished run has attempted that
\* many.
C11_OneRepositoryPerLine ==
    /\ Loaded => Cardinality(Tracked) = Cardinality(EntryLines)
    /\ pc = "done" =>
          Cardinality({i \in DOMAIN calls : calls[i][1] \in AttemptOps})
              = Cardinality(EntryLines)

\* C11: the loaded map holds one repository per distinct name among the
\* non-comment, non-blank lines, configured with the source of the last line
\* that carries the name, and a finished run has attempted exactly these.
C11_OneRepositoryPerName ==
    /\ Loaded =>
          /\ Tracked = {sourcemap[i][1] : i \in EntryLines}
          /\ \A r \in Tracked : repo_map[r] = sourcemap[LastDeclared(r)][3]
    /\ pc = "done" =>
          Cardinality({i \in DOMAIN calls : calls[i][1] \in AttemptOps})
              = Cardinality({sourcemap[i][1] : i \in EntryLines})

\* A finished run on three lines, two of which carry the same name with
\* different sources: two repositories were loaded and attempted.
C11_Witness ==
    /\ pc = "done"
    /\ Cardinality(EntryLines) = 3
    /\ sourcemap[1] = <<"a", "git", "u1">>
    /\ sourcemap[3] = <<"a", "git", "u2">>
    /\ Cardinality(Tracked) = 2
    /\ repo_map["a"] = "u2"
    /\ Cardinality({i \in DOMAIN calls : calls[i][1] \in AttemptOps}) = 2

----------------------------------------------------------------------------
(* C12 *)

\* The get_rev calls on name that built a commit.
Resolutions(name) == {i \in DOMAIN resolved : resolved[i][1] = name}

\* C12: a get_rev call that returns hands out the object that the one
\* successful resolution of its specifier built; it has issued git
\* invocations only if it is that resolution itself; and no specifier is
\* successfully resolved twice on one GitRepository object.
C12_ResolvedOnce ==
    /\ \A name \in Specifiers : Cardinality(Resolutions(name)) <= 1
    /\ ret.op = "get_rev" /\ ~ret.raised =>
          LET name == ret.args[1]
          IN  /\ name \in DOMAIN rev_cache /\ rev_cache[name] = ret.commit
              /\ \E i \in Resolutions(name) : resolved[i][2] = ret.commit.id
              /\ gitlog # <<>> =>
                    /\ ret.commit.id = made
                    /\ resolved[Len(resolved)] = <<name, made>>

\* A get_rev call has returned, without a git invocation, the first object
\* built on this repository, after a second object was built for the other
\* specifier.
C12_Witness ==
    /\ ret.op = "get_rev"
    /\ ~ret.raised
    /\ gitlog = <<>>
    /\ Len(resolved) = 2
    /\ ret.commit.id = 1
    /\ resolved[1] = <<ret.args[1], 1>>

----------------------------------------------------------------------------
(* C13 *)

\* C13: no step removes an entry of rev_cache or changes the object it
\* holds.
C13_CacheEntriesStay ==
    [][\A name \in DOMAIN rev_cache :
          name \in DOMAIN rev_cache' /\ rev_cache'[name] = rev_cache[name]]_vars

\* get_rev has returned the cached commit of a specifier whose ref has since
\* been moved to another commit.
C13_Witness ==
    /\ ret.op = "get_rev"
    /\ ~ret.raised
    /\ gitlog = <<>>
    /\ refs[ret.args[1]] \in Tips \ {ret.commit.hash}
    /\ rev_cache[ret.args[1]] = ret.commit

----------------------------------------------------------------------------
(* C19 *)

\* A GitCommit object whose constructor ran to its end.
Complete(commit) == commit.hash # None /\ commit.tree # None

\* C19: a get_rev call that raises leaves rev_cache as it was, without an
\* entry for its specifier, and rev_cache never holds an object whose
\* constructor did not run to its end.
C19_FailureNotCached ==
    [][/\ ret'.op = "get_rev" /\ ret'.raised =>
             /\ rev_cache' = rev_cache
             /\ ret'.args[1] \notin DOMAIN rev_cache'
       /\ \A name \in DOMAIN rev_cache' : Complete(rev_cache'[name])]_vars

\* get_rev has raised after git cat-file returned, on a specifier that
\* resolves to the commit with no message, and the cache holds the other
\* specifier only.
C19_Witness ==
    /\ ret.op = "get_rev"
    /\ ret.raised
    /\ ret.code = 0
    /\ Len(gitlog) = 2
    /\ refs[ret.args[1]] = "e1"
    /\ DOMAIN rev_cache = Specifiers \ {ret.args[1]}

----------------------------------------------------------------------------
(* C14 *)

\* C14: is_ancestor returns True when git exits with status 0, returns False
\* when and only when git exits with status 1, raises on every other
\* status, and returns True only for a commit reachable from the other.
C14_IsAncestorByExitStatus ==
    ret.op = "is_ancestor" =>
        /\ ret.code = 0 => ~ret.raised /\ ret.truth = "True"
        /\ ret.code = 1 => ~ret.raised /\ ret.truth = "False"
        /\ ret.truth = "False" => ret.code = 1
        /\ ret.code \notin {0, 1} => ret.raised
        /\ ret.truth = "True" => ret.args[1] \in History(ret.args[2])

\* is_ancestor has returned False for the unrelated root and a commit of
\* the graph.
C14_Witness ==
    /\ ret.op = "is_ancestor"
    /\ ret.args = <<"r1", "c2">>
    /\ ret.truth = "False"
    /\ ret.code = 1

----------------------------------------------------------------------------
(* C15 *)

Older(a, b) == a \in History(b) /\ a # b

\* C15: a comparison returns whenever git answers; C <= C returns True and
\* C < C returns False; C1 < C2 returns True exactly when C1 is reachable
\* from C2 and their hashes differ, C1 > C2 exactly when C2 is reachable
\* from C1 and their hashes differ.
C15_StrictOrder ==
    ret.op \in {"le", "lt", "gt"} =>
        /\ ret.code \in {0, 1} => ~ret.raised
        /\ ~ret.raised =>
              /\ ret.op = "le" /\ ret.args[1] = ret.args[2] => ret.truth = "True"
              /\ ret.op = "lt" /\ ret.args[1] = ret.args[2] => ret.truth = "False"
              /\ ret.op = "lt" =>
                    (ret.truth = "True" <=> Older(ret.args[1], ret.args[2]))
              /\ ret.op = "gt" =>
                    (ret.truth = "True" <=> Older(ret.args[2], ret.args[1]))

\* The root has compared less than the merge commit, two generations on.
C15_Witness ==
    /\ ret.op = "lt"
    /\ ret.args = <<"c1", "c4">>
    /\ ret.truth = "True"

----------------------------------------------------------------------------
(* C16 *)

CommonAncestors(a, b) == History(a) \cap History(b)

\* C16: the commit get_common_ancestor returns is reachable from both
\* operands and no other commit reachable from both descends from it; the
\* call fails with git's status 1 only on operands without common history.
C16_BestCommonAncestor ==
    ret.op = "get_common_ancestor" =>
        LET common == CommonAncestors(ret.args[1], ret.args[2])
        IN  /\ ~ret.raised =>
                  /\ ret.commit.hash \in common
                  /\ ~\E d \in common : Older(ret.commit.hash, d)
            /\ ret.raised /\ ret.code = 1 => common = {}

\* The common ancestor of the two children of the root has come out as the
\* root.
C16_Witness ==
    /\ ret.op = "get_common_ancestor"
    /\ ret.args = <<"c2", "c3">>
    /\ ~ret.raised
    /\ ret.commit.hash = "c1"

----------------------------------------------------------------------------
(* C17 *)

\* The lines of a description up to its first empty line.
Header(desc) ==
    IF BlankAt(desc) = {} THEN desc
    ELSE SubSeq(desc, 1, Min(BlankAt(desc)) - 1)

\* The lines of a description after its first empty line.
Body(desc) ==
    IF BlankAt(desc) = {} THEN <<>>
    ELSE SubSeq(desc, Min(BlankAt(desc)) + 1, Len(desc))

\* The values of the header fields called key, in their order.
Values(key, lines) ==
    LET with == SelectSeq(lines, LAMBDA f : f[1] = key)
    IN  [i \in DOMAIN with |-> with[i][2]]

\* A text as git prints it for a commit: header lines from the first line
\* on, then the empty line that ends them.
HeaderEnded(text) == text # <<>> /\ text[1] # BlankLine /\ BlankAt(text) # {}

\* C17 as stated: when git has printed a description whose header is ended
\* by an empty line, get_rev raises and caches nothing if the header holds
\* no tree field or several, and otherwise returns a commit with that tree,
\* the parent values in their order and the lines after the first empty
\* line as its summary.
C17_OneTreeMakesCommit ==
    ret.op = "get_rev" /\ ret.code = 0
            /\ HeaderEnded(store[refs[ret.args[1]]]) =>
        LET desc == DescOf(store[refs[ret.args[1]]])
            trees == Values("tree", Header(desc))
        IN  IF Len(trees) # 1
            THEN ret.raised /\ rev_cache = EmptyMap
            ELSE /\ ~ret.raised
                 /\ ret.commit.tree = trees[1]
                 /\ ret.commit.parents = Values("parent", Header(desc))
                 /\ ret.commit.summary = Body(desc)

----------------------------------------------------------------------------
(* C18 *)

\* C18: no step after the configuration is loaded takes the run out of
\* do_updates by an error, and every run whose configuration is loaded
\* eventually reaches the end of do_updates.
C18_LoadedRunFinishes ==
    /\ [][pc # "load" => pc' # "aborted"]_vars
    /\ (pc = "loop") ~> (pc = "done")

\* A run has reached its end after an init_repo raised, an update_repo
\* raised and the indexing trigger raised.
C18_Witness ==
    /\ pc = "done"
    /\ calls[Len(calls)] = <<"raised", None>>
    /\ \E r, s \in Tracked :
         /\ Raised(r) /\ Raised(s)
         /\ \E i \in Attempts(r) : calls[i][1] = "init_repo"
         /\ \E i \in Attempts(s) : calls[i][1] = "update_repo"

====
